---------------------------- MODULE Spec2Model ----------------------------
(***************************************************************************)
(* A state-machine model of generate_time_series_sleepdata, the synthetic  *)
(* sleep-diary generator, in its two variants:                             *)
(*   "basic"     natale2009_based_synthetic_data_generator.py              *)
(*   "advanced"  natale2009_advanced_generator.py                          *)
(*                                                                         *)
(* Minute values are Python floats in the source.  Here a minute value is  *)
(* an integer count of 1/Scale minutes (fixed point), so sums, differences *)
(* and halving are exact; quotients (sleep efficiency, Gamma shape and     *)
(* scale) are kept as exact fractions [num, den].                          *)
(*                                                                         *)
(* numpy's global RandomState is modelled as a small linear congruential   *)
(* generator: np.random.seed sets its state from the seed alone, and each  *)
(* sampling call advances the state once and maps the new state to a value *)
(* of the distribution asked for.                                          *)
(***************************************************************************)
EXTENDS Integers, Sequences, FiniteSets, TLC

\* ------------------------------------------------------------------ bounds

MaxParticipants == 2
MaxDays == 2
MaxRuns == 2

\* one minute, in fixed-point units (a resolution, not a bound)
Scale == 2 * 4

Mn(m) == m * Scale

\* ------------------------------------------------------- fractions, rounding

Frac(n, d) == [num |-> n, den |-> d]

Sign(x) == IF x > 0 THEN 1 ELSE IF x < 0 THEN -1 ELSE 0

FracSign(q) == Sign(q.num) * Sign(q.den)

\* Python's round() and numpy's round(): to the nearest integer, ties to even.
\* a / b with b > 0.
RoundHalfEvenDiv(a, b) ==
  LET q == a \div b
      r == a % b
  IN  IF 2 * r < b THEN q
      ELSE IF 2 * r > b THEN q + 1
      ELSE IF q % 2 = 0 THEN q ELSE q + 1

\* int(): truncation towards zero, of a / b with b > 0.
TruncDiv(a, b) == IF a >= 0 THEN a \div b ELSE -((-a) \div b)

np_clip(x, lo, hi) == IF x < lo THEN lo ELSE IF x > hi THEN hi ELSE x

\* ----------------------------------------------------------------- strings

Pad2(n) == IF n < 10 THEN "0" \o ToString(n) ELSE ToString(n)

Pad3(n) == IF n < 10 THEN "00" \o ToString(n)
           ELSE IF n < 100 THEN "0" \o ToString(n) ELSE ToString(n)

\* ------------------------------------------------- the global RandomState

RngMod == 64
RngMul == 5
RngInc == 3

\* a seeding that mixes the seed into the state instead of replacing it
np_random_seed_mixed(old, seed) == (old + seed) % RngMod

np_random_seed(old, seed) == seed % RngMod

RngNext(s) == (RngMul * s + RngInc) % RngMod

\* a standard normal deviate, in quarters: -2.0 .. 2.0
ZDen == 4
StdNormal(s) == (s % 17) - 8

\* np.random.normal(loc, scale) read off the generator state s
np_random_normal(loc, scale, s) == loc + (scale * StdNormal(s)) \div ZDen

\* np.random.gamma(shape, scale): a positive value around shape * scale
GammaDen == 4
np_random_gamma(shape, scale, s) ==
  LET mean == (shape.num * scale.num) \div (shape.den * scale.den)
  IN  (mean * ((s % 8) + 1)) \div GammaDen

\* np.random.poisson(lam): a count
np_random_poisson(s) == s % 8

\* ------------------------------------------------------------ time values

\* The shapes a cell of the parameter table can hold.
Timestamp(h, m) == [type |-> "Timestamp", hour |-> h, minute |-> m, second |-> 0]
TimeOfDay(h, m) == [type |-> "time", hour |-> h, minute |-> m, second |-> 0]
Timedelta(secs) == [type |-> "timedelta", seconds |-> secs]
TimeStr(chars) == [type |-> "str", chars |-> chars]
Numeric(units) == [type |-> "float", value |-> units]
NoneCell == [type |-> "NoneType"]

Digit(c) ==
  CASE c = "0" -> 0 [] c = "1" -> 1 [] c = "2" -> 2 [] c = "3" -> 3
    [] c = "4" -> 4 [] c = "5" -> 5 [] c = "6" -> 6 [] c = "7" -> 7
    [] c = "8" -> 8 [] c = "9" -> 9

\* pd.to_datetime("HH:MM").time()
ParseTime(chars) ==
  [hour |-> 10 * Digit(chars[1]) + Digit(chars[2]),
   minute |-> 10 * Digit(chars[4]) + Digit(chars[5])]

Ok(v) == [ok |-> TRUE, value |-> v, error |-> "none"]
Raise(e) == [ok |-> FALSE, value |-> 0, error |-> e]

Evening == 1080

\* the tail of convert_time_to_minutes, reached by the clock-like shapes
WrapEvening(mins, allow_negative) ==
  IF allow_negative /\ mins >= Mn(Evening) THEN mins - Mn(1440) ELSE mins

convert_time_to_minutes(val, allow_negative) ==
  CASE val.type \in {"Timestamp", "time"} ->
         Ok(WrapEvening(Mn(val.hour * 60 + val.minute), allow_negative))
    [] val.type = "timedelta" -> Ok((val.seconds * Scale) \div 60)
    [] val.type = "str" ->
         LET t == ParseTime(val.chars)
         IN  Ok(WrapEvening(Mn(t.hour * 60 + t.minute), allow_negative))
    [] val.type = "float" -> Ok(val.value)
    [] OTHER -> Raise("TypeError")

\* ------------------------------------------------------------------ tables

\* A record under construction is a Python dict: its keys in insertion order.
SetField(rec, k, v) == Append(rec, <<k, v>>)

Keys(rec) == [i \in DOMAIN rec |-> rec[i][1]]

Field(rec, k) == rec[CHOOSE i \in DOMAIN rec : rec[i][1] = k][2]

RowOf(rec) == [k \in {rec[i][1] : i \in DOMAIN rec} |-> Field(rec, k)]

\* pd.DataFrame(records): the columns are the keys of the records, in order;
\* an empty list gives a frame with no columns at all.
DataFrame(recs) ==
  [columns |-> IF recs = <<>> THEN <<>> ELSE Keys(recs[1]),
   rows |-> [i \in DOMAIN recs |-> RowOf(recs[i])]]

EmptyFrame == DataFrame(<<>>)

ColumnSet(t) == {t.columns[i] : i \in DOMAIN t.columns}

\* df[c] = values, one value per row
WithColumn(t, c, values) ==
  [columns |-> IF c \in ColumnSet(t) THEN t.columns ELSE Append(t.columns, c),
   rows |-> [i \in DOMAIN t.rows |-> (c :> values[i]) @@ t.rows[i]]]

\* df.drop(columns=cols)
DropColumns(t, cols) ==
  LET keep(c) == c \notin cols
      left == SelectSeq(t.columns, keep)
  IN  [columns |-> left,
       rows |-> [i \in DOMAIN t.rows |->
                   [c \in {left[j] : j \in DOMAIN left} |-> t.rows[i][c]]]]

\* df[order]
SelectColumns(t, order) ==
  [columns |-> order,
   rows |-> [i \in DOMAIN t.rows |->
               [c \in {order[j] : j \in DOMAIN order} |-> t.rows[i][c]]]]

\* ------------------------------------------------------------- the inputs

Variants == {"basic", "advanced"}

Seeds == {42, 19}

AmbientRng == {0, 9}

T2330 == <<"2", "3", ":", "3", "0">>

LightOffMeans ==
  {TimeOfDay(23, 30), TimeOfDay(6, 30), Timestamp(23, 30), TimeStr(T2330),
   Timedelta(23 * 3600 + 30 * 60 + 30), Numeric(Mn(1410)), Numeric(Mn(480)),
   NoneCell}

SleepEndMeans == {TimeOfDay(7, 30)}

\* (mean, SD) of a duration variable, in minutes
SOLParams == {<<30, 10>>, <<30, -10>>, <<0, 10>>, <<-30, 10>>, <<30, 0>>}
WASOParams == {<<20, 10>>, <<-20, 10>>}

ParameterTables ==
  {[v \in {"Light Off", "Sleep End", "SOL", "WASO"} |->
      CASE v = "Light Off" -> [Mean |-> lo, SD |-> Scale]
        [] v = "Sleep End" -> [Mean |-> se, SD |-> Scale]
        [] v = "SOL" -> [Mean |-> Mn(s[1]), SD |-> Mn(s[2])]
        [] v = "WASO" -> [Mean |-> Mn(w[1]), SD |-> Mn(w[2])]] :
     lo \in LightOffMeans, se \in SleepEndMeans, s \in SOLParams, w \in WASOParams}

Path(stem) == [parent |-> "output", stem |-> stem, suffix |-> ".xlsx"]

OutputPaths == {Path("control"), Path("insomnia")}

\* ------------------------------------------------------------------ state

VARIABLES
  variant,        \* which of the two scripts runs
  args,           \* parameter_path (its content), output_path, days, n_participants, seed
  rng,            \* numpy's process-wide RandomState
  pc,             \* the position in generate_time_series_sleepdata
  error,          \* the exception that ended the run, "none" if none
  df_params,      \* the parameter table
  pid, day,       \* the loop variables
  record,         \* the record under construction
  records,        \* the records appended so far
  df, df_with_json, df_json_only,
  files,          \* the tables in storage, by path
  written,        \* history: the paths this run has written
  draw_log,       \* history: the sampling calls made in this run, in order
  seed_calls,     \* history: the np.random.seed calls made in this run
  runs,           \* the calls of generate_time_series_sleepdata begun
  prev            \* history: what the previous call returned and wrote

vars == <<variant, args, rng, pc, error, df_params, pid, day, record, records,
          df, df_with_json, df_json_only, files, written, draw_log, seed_calls,
          runs, prev>>

NoParams == [v \in {} |-> 0]
NoFiles == [p \in {} |-> EmptyFrame]
NoPrev == [pc |-> "none", error |-> "none", df |-> EmptyFrame,
           full |-> EmptyFrame, block |-> EmptyFrame]

Init ==
  /\ variant \in Variants
  /\ args \in [parameter_file : ParameterTables, output_path : OutputPaths,
               days : 0 .. MaxDays, n_participants : 0 .. MaxParticipants,
               seed : Seeds]
  /\ rng \in AmbientRng
  /\ pc = "seed"
  /\ error = "none"
  /\ df_params = NoParams
  /\ pid = 0 /\ day = 0
  /\ record = <<>> /\ records = <<>>
  /\ df = EmptyFrame /\ df_with_json = EmptyFrame /\ df_json_only = EmptyFrame
  /\ files = NoFiles
  /\ written = {}
  /\ draw_log = <<>>
  /\ seed_calls = 0
  /\ runs = 1
  /\ prev = NoPrev

\* --------------------------------------------------- seeding, normalizing

\* np.random.seed(seed)
Seed ==
  /\ pc = "seed"
  /\ rng' = np_random_seed(rng, args.seed)
  /\ seed_calls' = seed_calls + 1
  /\ pc' = "read_params"
  /\ UNCHANGED <<variant, args, error, df_params, pid, day, record, records,
                 df, df_with_json, df_json_only, files, written, draw_log, runs, prev>>

\* df_params = pd.read_excel(parameter_path).set_index("Variable")
ReadParams ==
  /\ pc = "read_params"
  /\ df_params' = args.parameter_file
  /\ pc' = "normalize"
  /\ UNCHANGED <<variant, args, rng, error, pid, day, record, records,
                 df, df_with_json, df_json_only, files, written, draw_log, seed_calls,
                 runs, prev>>

\* the two loops swapped: days outermost, participants innermost
LoopFromDayMajor(p, d) ==
  IF args.n_participants = 0 \/ args.days = 0 THEN <<args.n_participants + 1, 1>>
  ELSE IF p = 1 /\ d = 1 THEN <<1, 1>>
  ELSE IF p < args.n_participants THEN <<p + 1, d - 1>>
  ELSE IF d <= args.days THEN <<1, d>>
  ELSE <<args.n_participants + 1, 1>>

\* The first (pid, day) of the nested loops from (p, d) on, or pid > n when
\* the loops are over: an empty inner range yields no iteration at all.
LoopFrom(p, d) ==
  IF p > args.n_participants THEN <<p, d>>
  ELSE IF d <= args.days THEN <<p, d>>
  ELSE IF args.days >= 1 THEN <<p + 1, 1>>
  ELSE <<args.n_participants + 1, 1>>

EnterLoop(p, d) ==
  LET at == LoopFrom(p, d)
  IN  /\ pid' = at[1]
      /\ day' = at[2]
      /\ pc' = IF at[1] > args.n_participants THEN "frame" ELSE "record"

\* The two means to minutes, then the two SDs from hours to minutes.
NormalizeParams ==
  /\ pc = "normalize"
  /\ LET lo == convert_time_to_minutes(df_params["Light Off"].Mean, TRUE)
         se == convert_time_to_minutes(df_params["Sleep End"].Mean, FALSE)
     IN  IF ~lo.ok \/ ~se.ok
         THEN /\ pc' = "error"
              /\ error' = IF ~lo.ok THEN lo.error ELSE se.error
              /\ df_params' =
                   IF lo.ok
                   THEN [df_params EXCEPT !["Light Off"].Mean = lo.value]
                   ELSE df_params
              /\ UNCHANGED <<pid, day>>
         ELSE /\ df_params' =
                   [df_params EXCEPT
                      !["Light Off"] = [Mean |-> lo.value, SD |-> @.SD * 60],
                      !["Sleep End"] = [Mean |-> se.value, SD |-> @.SD * 60]]
              /\ error' = error
              /\ EnterLoop(1, 1)
  /\ UNCHANGED <<variant, args, rng, record, records, df, df_with_json,
                 df_json_only, files, written, draw_log, seed_calls, runs, prev>>

get_params(var) == <<df_params[var].Mean, df_params[var].SD>>

\* ----------------------------------------------------- one record's draws

\* a decimal literal num/den of the source, in fixed-point units
Fx(num, den) == (num * Scale) \div den

LogEntry(kind, value) == [kind |-> kind, pid |-> pid, day |-> day, value |-> value]

\* (start_date + pd.Timedelta(days=day - 1)).strftime("%d/%m/%Y"), from 2024-03-01
DateString(d) ==
  IF d <= 31 THEN Pad2(d) \o "/03/2024" ELSE Pad2(d - 31) \o "/04/2024"

Identity(p, d) ==
  IF variant = "advanced"
  THEN <<<<"Participant", "Mock_" \o Pad3(p)>>,
         <<"Email", "mock_" \o Pad3(p) \o "@example.test">>,
         <<"Day", DateString(d)>>>>
  ELSE <<<<"Code", "Mock_" \o Pad3(p)>>, <<"Day", d>>>>

\* A new record, then Lights_Off and Sleep_End from their normal distributions.
SampleClockTimes ==
  /\ pc = "record"
  /\ LET s1 == RngNext(rng)
         s2 == RngNext(s1)
         loff == get_params("Light Off")
         send == get_params("Sleep End")
         lights_off_min == np_random_normal(loff[1], loff[2], s1)
         sleep_end_min == np_random_normal(send[1], send[2], s2)
     IN  /\ record' = SetField(SetField(Identity(pid, day),
                                        "Lights_Off", lights_off_min),
                               "Sleep_End", sleep_end_min)
         /\ draw_log' = draw_log \o <<LogEntry("LightsOff", lights_off_min),
                                      LogEntry("SleepEnd", sleep_end_min)>>
         /\ rng' = s2
  /\ pc' = "sol"
  /\ UNCHANGED <<variant, args, error, df_params, pid, day, records, df,
                 df_with_json, df_json_only, files, written, seed_calls, runs, prev>>

\* shape = (mu / sd) ** 2; scale = sd ** 2 / mu; np.random.gamma(shape, scale)
\* on the generator state s.  Python raises on a division by zero, numpy on a
\* negative shape or scale; nothing else is checked.
gamma_draw(mu, sd, s) ==
  IF sd = 0 \/ mu = 0 THEN Raise("ZeroDivisionError")
  ELSE LET shape == Frac(mu * mu, sd * sd)
           scale == Frac(sd * sd, mu)
       IN  IF FracSign(shape) < 0 \/ FracSign(scale) < 0
           THEN Raise("ValueError")
           ELSE Ok(np_random_gamma(shape, scale, s))

SampleGamma(at, var, column, next) ==
  /\ pc = at
  /\ LET s1 == RngNext(rng)
         p == get_params(var)
         g == gamma_draw(p[1], p[2], s1)
     IN  IF g.ok
         THEN /\ record' = SetField(record, column, g.value)
              /\ draw_log' = Append(draw_log, LogEntry(column, g.value))
              /\ rng' = s1
              /\ pc' = next
              /\ error' = error
         ELSE /\ pc' = "error"
              /\ error' = g.error
              /\ UNCHANGED <<record, draw_log, rng>>
  /\ UNCHANGED <<variant, args, df_params, pid, day, records, df, df_with_json,
                 df_json_only, files, written, seed_calls, runs, prev>>

SampleSOL == SampleGamma("sol", "SOL", "SOL", "waso")

SampleWASO == SampleGamma("waso", "WASO", "WASO", "derive")

NaN == [nan |-> TRUE, num |-> 0, den |-> 1]

\* the efficiency left as a ratio, not a percentage
sleep_efficiency_ratio(tst, tib) ==
  IF tib > 0 THEN [nan |-> FALSE, num |-> tst, den |-> tib] ELSE NaN

\* se = (tst / tib) * 100 if tib > 0 else np.nan
sleep_efficiency(tst, tib) ==
  IF tib > 0 THEN [nan |-> FALSE, num |-> tst * 100, den |-> tib] ELSE NaN

\* the waiting time without its clip
wait_time_unclipped(s) == np_random_normal(Mn(15), Mn(10), s)

\* the waiting time: np.clip(np.random.normal(15, 10), 5, 30)
wait_time_draw(s) == np_clip(np_random_normal(Mn(15), Mn(10), s), Mn(5), Mn(30))

\* The derived fields of the advanced variant, appended to rec.
derived_advanced(rec, wait_time) ==
  LET lights_off_min == Field(rec, "Lights_Off")
      sleep_end_min == Field(rec, "Sleep_End")
      sol == Field(rec, "SOL")
      waso == Field(rec, "WASO")
      out_of_bed_min == sleep_end_min + wait_time
      tib == out_of_bed_min - lights_off_min
      twt == sol + waso
      tst == tib - (sol + waso)
      se == sleep_efficiency(tst, tib)
      midpoint == (lights_off_min + out_of_bed_min) \div 2
  IN  rec \o <<<<"Out_of_Bed", out_of_bed_min>>, <<"TIB", tib>>, <<"TWT", twt>>,
               <<"TST", tst>>, <<"SE", se>>, <<"Midpoint", midpoint>>>>

\* The derived fields of the basic variant, appended to rec.
derived_basic(rec, wait_time) ==
  LET lights_off_min == Field(rec, "Lights_Off")
      sleep_end_min == Field(rec, "Sleep_End")
      sol == Field(rec, "SOL")
      waso == Field(rec, "WASO")
      out_of_bed_min == sleep_end_min + wait_time
      tib == out_of_bed_min - lights_off_min
      tst == tib - (sol + waso)
      se == sleep_efficiency(tst, tib)
      midpoint == (lights_off_min + sleep_end_min) \div 2
  IN  rec \o <<<<"Out_of_Bed", out_of_bed_min>>, <<"TIB", tib>>,
               <<"TST", tst>>, <<"SE", se>>, <<"Midpoint", midpoint>>>>

DeriveMetrics ==
  /\ pc = "derive"
  /\ LET s1 == RngNext(rng)
         wait_time == wait_time_draw(s1)
     IN  /\ record' = IF variant = "advanced"
                      THEN derived_advanced(record, wait_time)
                      ELSE derived_basic(record, wait_time)
         /\ draw_log' = Append(draw_log, LogEntry("WaitTime", wait_time))
         /\ rng' = s1
  /\ pc' = IF variant = "advanced" THEN "habits" ELSE "append"
  /\ UNCHANGED <<variant, args, error, df_params, pid, day, records, df,
                 df_with_json, df_json_only, files, written, seed_calls, runs, prev>>

\* The habit variables of the advanced variant.
habits(s1, s2, s3, s4, s5) ==
  <<<<"SQ", np_clip(RoundHalfEvenDiv(
              np_random_normal(Mn(7), Fx(15, 10), s1), Scale), 1, 10)>>,
    <<"Rested", np_clip(RoundHalfEvenDiv(
              np_random_normal(Fx(65, 10), Fx(18, 10), s2), Scale), 1, 10)>>,
    <<"Physical_Activity_Minutes",
      TruncDiv(np_clip(np_random_normal(Mn(50), Mn(20), s3), 0, Mn(180)), Scale)>>,
    <<"Caffeine", np_clip(np_random_poisson(s4), 0, 6)>>,
    <<"Medication", "None">>,
    <<"time to calm down and relax",
      TruncDiv(np_clip(np_random_normal(Mn(45), Mn(15), s5), 0, Mn(120)), Scale)>>>>

HabitDraws == <<"SQ", "Rested", "Physical_Activity_Minutes", "Caffeine",
                "time to calm down and relax">>

SampleHabits ==
  /\ pc = "habits"
  /\ LET s1 == RngNext(rng)
         s2 == RngNext(s1)
         s3 == RngNext(s2)
         s4 == RngNext(s3)
         s5 == RngNext(s4)
         h == habits(s1, s2, s3, s4, s5)
     IN  /\ record' = record \o h
         /\ draw_log' = draw_log \o
              [i \in 1 .. 5 |-> LogEntry(HabitDraws[i], Field(h, HabitDraws[i]))]
         /\ rng' = s5
  /\ pc' = "append"
  /\ UNCHANGED <<variant, args, error, df_params, pid, day, records, df,
                 df_with_json, df_json_only, files, written, seed_calls, runs, prev>>

\* records.append(record), and on to the next (participant, day)
AppendRecord ==
  /\ pc = "append"
  /\ records' = Append(records, record)
  /\ record' = <<>>
  /\ EnterLoop(pid, day + 1)
  /\ UNCHANGED <<variant, args, rng, error, df_params, df, df_with_json,
                 df_json_only, files, written, draw_log, seed_calls, runs, prev>>

\* ------------------------------------------------- formatting, the views

\* the clock string without the reduction modulo a day
minutes_to_clock_unreduced(x) ==
  LET m == x \div Scale
  IN  Pad2(m \div 60) \o ":" \o Pad2(m % 60)

\* pd.to_datetime(x % (24 * 60), unit='m').strftime("%H:%M")
minutes_to_clock(x) ==
  LET m == (x % Mn(24 * 60)) \div Scale
  IN  Pad2(m \div 60) \o ":" \o Pad2(m % 60)

\* df = pd.DataFrame(records)
BuildFrame ==
  /\ pc = "frame"
  /\ df' = DataFrame(records)
  /\ pc' = "clock"
  /\ UNCHANGED <<variant, args, rng, error, df_params, pid, day, record,
                 records, df_with_json, df_json_only, files, written, draw_log,
                 seed_calls, runs, prev>>

ClockColumns == <<"Lights_Off", "Sleep_End", "Midpoint">>

\* df[col].apply(lambda x: ...)
ClockOf(t, col) == [i \in DOMAIN t.rows |-> minutes_to_clock(t.rows[i][col])]

add_clock_columns(t) ==
  LET t1 == WithColumn(t, "Lights_Off_Clock", ClockOf(t, "Lights_Off"))
      t2 == WithColumn(t1, "Sleep_End_Clock", ClockOf(t1, "Sleep_End"))
  IN  WithColumn(t2, "Midpoint_Clock", ClockOf(t2, "Midpoint"))

\* The three clock columns; df[col] of a frame without that column is a KeyError.
AddClockColumns ==
  /\ pc = "clock"
  /\ IF \A i \in 1 .. 3 : ClockColumns[i] \in ColumnSet(df)
     THEN /\ df' = add_clock_columns(df)
          /\ pc' = IF variant = "advanced" THEN "json" ELSE "write"
          /\ error' = error
     ELSE /\ pc' = "error"
          /\ error' = "KeyError"
          /\ df' = df
  /\ UNCHANGED <<variant, args, rng, df_params, pid, day, record, records,
                 df_with_json, df_json_only, files, written, draw_log,
                 seed_calls, runs, prev>>

\* round(x, 1) of a sleep efficiency, in tenths
round1(se) ==
  IF se.nan THEN [nan |-> TRUE, tenths |-> 0]
  ELSE [nan |-> FALSE, tenths |-> RoundHalfEvenDiv(10 * se.num, se.den)]

\* int(x): truncation instead of rounding
int_trunc(x) == TruncDiv(x, Scale)

\* int(round(x)) of a minute value
int_round(x) == RoundHalfEvenDiv(x, Scale)

build_sleep_json(row) ==
  [start |-> minutes_to_clock(row["Lights_Off"]),
   end |-> minutes_to_clock(row["Sleep_End"]),
   totals |-> [sl |-> int_round(row["SOL"]),
               wans |-> int_round(row["WASO"]),
               twt |-> int_round(row["SOL"] + row["WASO"]),
               tib |-> int_round(row["TIB"]),
               tst |-> int_round(row["TST"]),
               se |-> round1(row["SE"])]]

\* df_with_json = df.copy(); df_with_json["Sleep_JSON"] = ...
BuildJsonColumn ==
  /\ pc = "json"
  /\ df_with_json' =
       WithColumn(df, "Sleep_JSON",
                  [i \in DOMAIN df.rows |-> build_sleep_json(df.rows[i])])
  /\ pc' = "write"
  /\ UNCHANGED <<variant, args, rng, error, df_params, pid, day, record,
                 records, df, df_json_only, files, written, draw_log,
                 seed_calls, runs, prev>>

\* the frame with the JSON column written as the full view (no df.copy())
full_view_aliased(frame, frame_with_json) == frame_with_json

\* the table df.to_excel(output_path) writes
full_view(frame, frame_with_json) == frame

WriteFull ==
  /\ pc = "write"
  /\ files' = (args.output_path :> full_view(df, df_with_json)) @@ files
  /\ written' = written \cup {args.output_path}
  /\ pc' = IF variant = "advanced" THEN "partition" ELSE "done"
  /\ UNCHANGED <<variant, args, rng, error, df_params, pid, day, record,
                 records, df, df_with_json, df_json_only, draw_log, seed_calls,
                 runs, prev>>

sleep_vars == {"Out_of_Bed", "Midpoint", "Lights_Off_Clock", "Sleep_End_Clock",
               "Midpoint_Clock", "Lights_Off", "Sleep_End", "SOL", "WASO",
               "TWT", "TIB", "TST", "SE"}

\* df_with_json.drop(columns=sleep_vars), then Sleep_JSON moved to the end
block_view(frame_with_json) ==
  LET dropped == DropColumns(frame_with_json, sleep_vars)
      not_json(c) == c # "Sleep_JSON"
      cols_order == Append(SelectSeq(dropped.columns, not_json), "Sleep_JSON")
  IN  SelectColumns(dropped, cols_order)

jsonblock_path(p) == [p EXCEPT !.stem = p.stem \o "_jsonblock_only"]

WriteBlock ==
  /\ pc = "partition"
  /\ IF sleep_vars \subseteq ColumnSet(df_with_json)
     THEN /\ df_json_only' = block_view(df_with_json)
          /\ files' = (jsonblock_path(args.output_path) :> df_json_only') @@ files
          /\ written' = written \cup {jsonblock_path(args.output_path)}
          /\ pc' = "done"
          /\ error' = error
     ELSE /\ pc' = "error"
          /\ error' = "KeyError"
          /\ UNCHANGED <<df_json_only, files, written>>
  /\ UNCHANGED <<variant, args, rng, df_params, pid, day, record, records, df,
                 df_with_json, draw_log, seed_calls, runs, prev>>

\* ------------------------------------------------------------ a second call

\* The function is called again in the same process with the same parameter
\* table, days, n_participants and seed, and any output path.  The global
\* RandomState and the stored files are whatever the last call left.
CallAgain ==
  /\ pc \in {"done", "error"}
  /\ runs < MaxRuns
  /\ runs' = runs + 1
  /\ prev' = [pc |-> pc, error |-> error,
              df |-> IF pc = "done" THEN df ELSE EmptyFrame,
              full |-> IF args.output_path \in written
                       THEN files[args.output_path] ELSE EmptyFrame,
              block |-> IF jsonblock_path(args.output_path) \in written
                        THEN files[jsonblock_path(args.output_path)]
                        ELSE EmptyFrame]
  /\ \E p \in OutputPaths : args' = [args EXCEPT !.output_path = p]
  /\ pc' = "seed"
  /\ error' = "none"
  /\ df_params' = NoParams
  /\ pid' = 0 /\ day' = 0
  /\ record' = <<>> /\ records' = <<>>
  /\ df' = EmptyFrame /\ df_with_json' = EmptyFrame /\ df_json_only' = EmptyFrame
  /\ written' = {}
  /\ draw_log' = <<>>
  /\ seed_calls' = 0
  /\ UNCHANGED <<variant, rng, files>>

Next ==
  \/ Seed
  \/ ReadParams
  \/ NormalizeParams
  \/ SampleClockTimes
  \/ SampleSOL
  \/ SampleWASO
  \/ DeriveMetrics
  \/ SampleHabits
  \/ AppendRecord
  \/ BuildFrame
  \/ AddClockColumns
  \/ BuildJsonColumn
  \/ WriteFull
  \/ WriteBlock
  \/ CallAgain

Spec == Init /\ [][Next]_vars

\* ===================================================================
\* Properties
\* ===================================================================

IsWaitTime(e) == e.kind = "WaitTime"

\* the waiting times drawn in this run: the k-th belongs to the k-th record
WaitTimes == SelectSeq(draw_log, IsWaitTime)

Abs(x) == IF x < 0 THEN -x ELSE x

RECURSIVE Gcd(_, _)
Gcd(a, b) == IF b = 0 THEN a ELSE Gcd(b, a % b)

\* equality of two fractions with positive denominators, in lowest terms
FracEq(p, q) ==
  LET g == Gcd(Abs(p.num), p.den)
      h == Gcd(Abs(q.num), q.den)
  IN  p.num \div g = q.num \div h /\ p.den \div g = q.den \div h

Framed == pc \in {"clock", "json", "write", "partition", "done"}

FullWritten == args.output_path \in written

BlockWritten == jsonblock_path(args.output_path) \in written

\* the rows this run has produced: appended, framed and written
ChainHolds(row, w) ==
  /\ row["Out_of_Bed"] = row["Sleep_End"] + w
  /\ row["TIB"] = row["Out_of_Bed"] - row["Lights_Off"]
  /\ variant = "advanced" =>
       /\ row["TWT"] = row["SOL"] + row["WASO"]
       /\ row["TST"] = row["TIB"] - row["TWT"]
  /\ row["TST"] = row["TIB"] - (row["SOL"] + row["WASO"])
  /\ row["TIB"] > 0 =>
       /\ ~row["SE"].nan
       /\ FracEq(row["SE"], Frac(100 * row["TST"], row["TIB"]))
  /\ row["SE"].nan <=> row["TIB"] <= 0

\* C1: every record satisfies the chain Out_of_Bed = Sleep_End + WaitTime,
\* TIB = Out_of_Bed - Lights_Off, TWT = SOL + WASO, TST = TIB - TWT,
\* SE = 100 * TST / TIB when TIB > 0, and SE is NaN exactly when TIB <= 0;
\* this holds of the records appended, of the frame built from them and of
\* the table written.  (The basic variant stores no TWT column: there the
\* chain reads TST = TIB - (SOL + WASO).)
C1_InvariantChain ==
  /\ \A k \in DOMAIN records : ChainHolds(RowOf(records[k]), WaitTimes[k].value)
  /\ Framed => \A k \in DOMAIN df.rows : ChainHolds(df.rows[k], WaitTimes[k].value)
  /\ FullWritten =>
       \A k \in DOMAIN files[args.output_path].rows :
          ChainHolds(files[args.output_path].rows[k], WaitTimes[k].value)

\* a finished run whose table holds a record with TIB = 0 (SE is NaN) and
\* a record with TIB > 0
C1_Witness ==
  /\ pc = "done"
  /\ \E i, j \in DOMAIN files[args.output_path].rows :
       /\ files[args.output_path].rows[i]["TIB"] = 0
       /\ files[args.output_path].rows[i]["SE"].nan
       /\ files[args.output_path].rows[j]["TIB"] > 0
       /\ ~files[args.output_path].rows[j]["SE"].nan

\* C2: a second call with the same seed, parameter table, days and
\* n_participants ends as the first did and returns and writes the same
\* tables (full view and block view), whatever the generator state and the
\* files the first call left and whatever the output path.
C2_Determinism ==
  (runs >= 2 /\ pc \in {"done", "error"}) =>
     /\ prev.pc = pc
     /\ prev.error = error
     /\ pc = "done" =>
          /\ df = prev.df
          /\ files[args.output_path] = prev.full
          /\ variant = "advanced" =>
               files[jsonblock_path(args.output_path)] = prev.block

\* a second call that has finished with at least two records
C2_Witness ==
  /\ runs = 2
  /\ pc = "done"
  /\ Len(df.rows) >= 2
  /\ prev.pc = "done"

\* the parameter tables the generator is specified for
WellFormedParams ==
  /\ args.parameter_file["Light Off"].Mean.type # "NoneType"
  /\ \A v \in {"SOL", "WASO"} :
       args.parameter_file[v].Mean > 0 /\ args.parameter_file[v].SD > 0

ParticipantOf(row) == IF variant = "advanced" THEN row["Participant"] ELSE row["Code"]

DayOf(d) == IF variant = "advanced" THEN DateString(d) ELSE d

\* row k (from 0) is the row of participant floor(k / days) + 1, day (k mod days) + 1
RowsInOrder(t) ==
  /\ Len(t.rows) = args.n_participants * args.days
  /\ \A i \in DOMAIN t.rows :
       /\ ParticipantOf(t.rows[i]) = "Mock_" \o Pad3(((i - 1) \div args.days) + 1)
       /\ t.rows[i]["Day"] = DayOf(((i - 1) % args.days) + 1)

\* C3: for any n_participants >= 0 and days >= 0 (and a well-formed
\* parameter table) the run ends with n_participants * days records in
\* participant-major, day-minor order, and each output view holds exactly
\* these rows in this order.
C3_OneRecordPerPairInBothViews ==
  (WellFormedParams /\ pc \in {"done", "error"}) =>
     /\ Len(records) = args.n_participants * args.days
     /\ FullWritten /\ RowsInOrder(files[args.output_path])
     /\ variant = "advanced" =>
          BlockWritten /\ RowsInOrder(files[jsonblock_path(args.output_path)])

\* the minute value of a cell, before any reinterpretation
MinuteValue(cell) == convert_time_to_minutes(cell, FALSE).value

\* C4: for every accepted shape of the Light Off cell, normalizing it with
\* allow_negative gives v - 1440 when its minute value v is >= 1080 and v
\* otherwise; the Sleep End cell, normalized without the flag, stays
\* non-negative.
C4_WrapForEveryShape ==
  (pc \notin {"seed", "read_params", "normalize", "error"}) =>
     LET v == MinuteValue(args.parameter_file["Light Off"].Mean)
     IN  /\ df_params["Light Off"].Mean =
              IF v >= Mn(1080) THEN v - Mn(1440) ELSE v
         /\ df_params["Sleep End"].Mean >= 0

BadGamma(v) == args.parameter_file[v].Mean <= 0 \/ args.parameter_file[v].SD <= 0

\* C5: with a non-positive mean or SD of SOL or WASO no Gamma draw is made
\* from those parameters, no record is created and no table is written.
C5_FailFastOnBadGamma ==
  \A v \in {"SOL", "WASO"} :
     BadGamma(v) =>
        /\ \A i \in DOMAIN draw_log : draw_log[i].kind # v
        /\ records = <<>>
        /\ written = {}

\* the clock string of hour h and minute mi, zero-padded
HHMM(h, mi) == Pad2(h) \o ":" \o Pad2(mi)

ClockPeriodic(x) ==
  LET m == x % Mn(1440)
      hour == (m \div Scale) \div 60
      minute == (m \div Scale) % 60
  IN  /\ minutes_to_clock(x) = minutes_to_clock(m)
      /\ minutes_to_clock(x) = minutes_to_clock(x - Mn(1440))
      /\ hour \in 0 .. 23 /\ minute \in 0 .. 59
      /\ minutes_to_clock(x) = HHMM(hour, minute)

HasClocks == pc \in {"json", "write", "partition", "done"}

\* C6: the clock string of a minute value m is that of m mod 1440 and that
\* of m - 1440, and is HH:MM with HH = floor((m mod 1440) / 60) in 00..23 and
\* MM = (m mod 1440) mod 60 in 00..59; checked of every clock-time value
\* drawn (negative ones included) and of the three clock columns of every row.
C6_ClockPeriodic ==
  /\ \A i \in DOMAIN draw_log :
       draw_log[i].kind \in {"LightsOff", "SleepEnd"} =>
          /\ ClockPeriodic(draw_log[i].value)
          /\ ClockPeriodic(draw_log[i].value + Mn(1440))
  /\ HasClocks =>
       \A k \in DOMAIN df.rows :
          /\ \A i \in 1 .. 3 : ClockPeriodic(df.rows[k][ClockColumns[i]])
          /\ df.rows[k]["Lights_Off_Clock"] = minutes_to_clock(df.rows[k]["Lights_Off"])
          /\ df.rows[k]["Sleep_End_Clock"] = minutes_to_clock(df.rows[k]["Sleep_End"])
          /\ df.rows[k]["Midpoint_Clock"] = minutes_to_clock(df.rows[k]["Midpoint"])

\* a frame with clock columns holding a negative Lights_Off, rendered as a
\* time of the evening
C6_Witness ==
  /\ HasClocks
  /\ \E k \in DOMAIN df.rows :
       /\ df.rows[k]["Lights_Off"] < 0
       /\ df.rows[k]["Lights_Off"] > -Mn(1440)
       /\ df.rows[k]["Lights_Off"] % Scale = 0
       /\ LET before == (-df.rows[k]["Lights_Off"]) \div Scale
          IN  df.rows[k]["Lights_Off_Clock"] =
                HHMM((1440 - before) \div 60, (1440 - before) % 60)

BlockColumns ==
  <<"Participant", "Email", "Day", "SQ", "Rested", "Physical_Activity_Minutes",
    "Caffeine", "Medication", "time to calm down and relax", "Sleep_JSON">>

SleepColumns ==
  {"Lights_Off", "Sleep_End", "SOL", "WASO", "Out_of_Bed", "TIB", "TWT", "TST",
   "SE", "Midpoint", "Lights_Off_Clock", "Sleep_End_Clock", "Midpoint_Clock"}

\* C7: the block view written has exactly the identity and habit columns
\* followed by Sleep_JSON, none of the sleep columns, one row per row of the
\* full view with the same identity and habit cells; and the full view
\* written is the frame as it was before the block was built, without a
\* Sleep_JSON column.
C7_BlockViewProjection ==
  /\ (variant = "advanced" /\ pc = "done") =>
       LET full == files[args.output_path]
           block == files[jsonblock_path(args.output_path)]
       IN  /\ block.columns = BlockColumns
           /\ ColumnSet(block) \cap SleepColumns = {}
           /\ Len(block.rows) = Len(full.rows)
           /\ \A k \in DOMAIN block.rows :
                /\ DOMAIN block.rows[k] = ColumnSet(block)
                /\ \A i \in 1 .. 9 :
                     block.rows[k][BlockColumns[i]] = full.rows[k][BlockColumns[i]]
                /\ block.rows[k]["Sleep_JSON"] = df_with_json.rows[k]["Sleep_JSON"]
           /\ full = df
  /\ FullWritten =>
       /\ "Sleep_JSON" \notin ColumnSet(files[args.output_path])
       /\ \A k \in DOMAIN files[args.output_path].rows :
            "Sleep_JSON" \notin DOMAIN files[args.output_path].rows[k]

\* a finished run of the advanced variant with both views written
C7_Witness ==
  /\ variant = "advanced"
  /\ pc = "done"
  /\ FullWritten /\ BlockWritten
  /\ Len(files[jsonblock_path(args.output_path)].rows) >= 2

\* r is a / b (b > 0) rounded to the nearest integer, ties to even
IsRoundOf(r, a, b) ==
  /\ 2 * Abs(r * b - a) <= b
  /\ 2 * Abs(r * b - a) = b => r % 2 = 0

BlockOfRow(block, row) ==
  /\ block.start = minutes_to_clock(row["Lights_Off"] % Mn(1440))
  /\ block.end = minutes_to_clock(row["Sleep_End"] % Mn(1440))
  /\ IsRoundOf(block.totals.sl, row["SOL"], Scale)
  /\ IsRoundOf(block.totals.wans, row["WASO"], Scale)
  /\ IsRoundOf(block.totals.twt, row["TWT"], Scale)
  /\ IsRoundOf(block.totals.tib, row["TIB"], Scale)
  /\ IsRoundOf(block.totals.tst, row["TST"], Scale)
  /\ block.totals.se.nan <=> row["SE"].nan
  /\ ~row["SE"].nan =>
       IsRoundOf(block.totals.se.tenths, 10 * row["SE"].num, row["SE"].den)

\* C8: the SleepBlock of every row is built from that row alone: start and
\* end are the clock strings of Lights_Off and Sleep_End modulo 1440, sl,
\* wans, twt, tib and tst are SOL, WASO, TWT, TIB and TST rounded to the
\* nearest integer, and se is SE rounded to one decimal (NaN stays NaN).
C8_SleepBlockOfRecord ==
  (variant = "advanced" /\ pc \in {"write", "partition", "done"}) =>
     \A k \in DOMAIN df_with_json.rows :
        BlockOfRow(df_with_json.rows[k]["Sleep_JSON"], df.rows[k])

\* a row whose SOL lies exactly between two integers and whose SE is a number
C8_Witness ==
  /\ variant = "advanced"
  /\ pc = "done"
  /\ \E k \in DOMAIN df_with_json.rows :
       /\ (2 * df_with_json.rows[k]["SOL"]) % (2 * Scale) = Scale
       /\ ~df_with_json.rows[k]["SE"].nan
       /\ df_with_json.rows[k]["Sleep_JSON"].totals.sl > 0

DrawOrder ==
  <<"LightsOff", "SleepEnd", "SOL", "WASO", "WaitTime", "SQ", "Rested",
    "Physical_Activity_Minutes", "Caffeine", "time to calm down and relax">>

\* the sampling calls of one record: the basic variant stops after WaitTime
DrawsPerRecord == IF variant = "advanced" THEN 10 ELSE 5

\* C9: np.random.seed is called once, first; no draw is made before the
\* parameters are normalized; the i-th draw of the run is the draw
\* DrawOrder[(i - 1) mod D + 1] of record (i - 1) div D, records taken
\* participant-major and day-minor, whatever was drawn; and a record is
\* appended only with all its draws made.
C9_DrawOrder ==
  /\ seed_calls <= 1
  /\ pc # "seed" => seed_calls = 1
  /\ draw_log # <<>> =>
       /\ pc \notin {"seed", "read_params", "normalize"}
       /\ \A v \in {"Light Off", "Sleep End"} :
            df_params[v].SD = 60 * args.parameter_file[v].SD
  /\ \A i \in DOMAIN draw_log :
       LET k == (i - 1) \div DrawsPerRecord
       IN  /\ draw_log[i].kind = DrawOrder[((i - 1) % DrawsPerRecord) + 1]
           /\ draw_log[i].pid = (k \div args.days) + 1
           /\ draw_log[i].day = (k % args.days) + 1
  /\ Len(records) * DrawsPerRecord <= Len(draw_log)
  /\ Len(draw_log) <= Len(records) * DrawsPerRecord + DrawsPerRecord
  /\ pc \in {"record", "frame"} => Len(draw_log) = Len(records) * DrawsPerRecord

\* a run of the advanced variant that has drawn for all of 2 x 2 records
C9_Witness ==
  /\ variant = "advanced"
  /\ pc = "done"
  /\ args.n_participants = 2 /\ args.days = 2
  /\ Len(draw_log) = 40

IsPrimitive(f) == f[1] \in {"Lights_Off", "Sleep_End", "SOL", "WASO"}

\* the sampled primitives of a record
Primitives(rec) == SelectSeq(rec, IsPrimitive)

MidpointsDiverge(rec, w) ==
  LET basic == Field(derived_basic(Primitives(rec), w), "Midpoint")
      advanced == Field(derived_advanced(Primitives(rec), w), "Midpoint")
  IN  /\ Field(rec, "Midpoint") = IF variant = "basic" THEN basic ELSE advanced
      /\ 2 * basic = Field(rec, "Lights_Off") + Field(rec, "Sleep_End")
      /\ 2 * advanced = Field(rec, "Lights_Off") + Field(rec, "Out_of_Bed")
      /\ 2 * (advanced - basic) = w
      /\ Field(rec, "Out_of_Bed") - Field(rec, "Sleep_End") >= Mn(5)
      /\ Field(rec, "Out_of_Bed") - Field(rec, "Sleep_End") <= Mn(30)
      /\ advanced # basic
      /\ 2 * (advanced - basic) >= Mn(5) /\ 2 * (advanced - basic) <= Mn(30)

\* C10: on the primitives of any record the basic Midpoint is
\* (Lights_Off + Sleep_End) / 2, the advanced one (Lights_Off + Out_of_Bed) / 2,
\* each variant stores its own, the advanced one is larger by WaitTime / 2,
\* Out_of_Bed - Sleep_End lies in [5, 30], and so the two differ by between
\* 2.5 and 15 minutes.
C10_MidpointVariants ==
  \A k \in DOMAIN records : MidpointsDiverge(records[k], WaitTimes[k].value)

\* a finished run with records whose waiting time was clipped at 5 and at
\* 30 minutes
C10_Witness ==
  /\ pc = "done"
  /\ \E k \in DOMAIN records : WaitTimes[k].value = Mn(5)
  /\ \E k \in DOMAIN records : WaitTimes[k].value = Mn(30)

=============================================================================
